---- MODULE Spec2Model ----
(***************************************************************************)
(* Model of the sample-sheet scraper: scraper.py (SampleSheetFinder and    *)
(* the date helpers) driven by scheduler.py (Scheduler.run), over a small  *)
(* directory tree, an index file and an output folder.                     *)
(***************************************************************************)
EXTENDS Integers, Sequences, FiniteSets, TLC

(* ------------------------------ bounds --------------------------------- *)
\* number of entries directly under the root folder
NumSlots == 2
\* number of changes made to the directory tree between the runs
MaxTreeChanges == 2
\* the scheduler starts a run only while the index file has at most this many lines
MaxIndexLines == 2
\* Scheduler.wait_time and Scheduler.update_interval, in polling units
wait_time == 1
update_interval == 1
\* unit specification: length of the sheet list handed to organize_samplesheets
MaxSheets == 2

\* The entries under the root, numbered in the order in which the
\* directory lists them (the order of iterdir() and of the glob walk).
Slots == 1..NumSlots

(* ------------------------- sample sheet files -------------------------- *)
\* SampleSheetFinder.fieldnames
fieldnames ==
  <<"Sample_ID", "Sample_Name", "Species", "Project", "NucleicAcid",
    "Sample_Well", "I7_Index_ID", "index", "I5_Index_ID", "index2">>

NumFields == Len(fieldnames)

\* A file is a sequence of lines; a line is its comma separated fields and
\* its line terminator ("LF" or "CRLF").
Ln(f, e) == [fields |-> f, eol |-> e]

RECURSIVE Blanks(_)
Blanks(n) == IF n <= 0 THEN <<>> ELSE <<"">> \o Blanks(n - 1)

\* a row written out with all ten columns, as the instrument does
Full(f) == f \o Blanks(NumFields - Len(f))

HeaderRow == fieldnames

Sheet(pre, data, e) ==
  [i \in 1..Len(pre) |-> Ln(pre[i], e)] \o <<Ln(HeaderRow, e)>>
    \o [i \in 1..Len(data) |-> Ln(data[i], e)]

\* The sheet contents the model draws from.
SheetContents ==
  << \* 1: ContainerID 170120, two samples
     Sheet(<<Full(<<"[Header]">>), Full(<<"ContainerID", "170120">>)>>,
           <<Full(<<"a1", "A">>), Full(<<"a2", "A">>)>>, "LF"),
     \* 2: ContainerID 170120, another preamble, three samples, CRLF
     Sheet(<<Full(<<"[Header]">>), Full(<<"FileVersion", "1">>),
             Full(<<"ContainerID", "170120">>)>>,
           <<Full(<<"b1", "B">>), Full(<<"b2", "B">>), Full(<<"b3", "B">>)>>, "CRLF"),
     \* 3: ContainerID 181017
     Sheet(<<Full(<<"[Header]">>), Full(<<"ContainerID", "181017">>)>>,
           <<Full(<<"c1", "C">>)>>, "LF"),
     \* 4: no ContainerID row
     Sheet(<<Full(<<"[Header]">>)>>, <<Full(<<"d1", "D">>)>>, "LF"),
     \* 5: a ContainerID row that has no second field
     Sheet(<<Full(<<"[Header]">>), <<"ContainerID">>>>, <<Full(<<"e1", "E">>)>>, "LF"),
     \* 6: a ContainerID row whose code is not six digits
     Sheet(<<Full(<<"[Header]">>), Full(<<"ContainerID", "1701">>)>>,
           <<Full(<<"f1", "F">>)>>, "LF"),
     \* 7: a ContainerID row whose second field is empty
     Sheet(<<Full(<<"[Header]">>), Full(<<"ContainerID">>)>>,
           <<Full(<<"g1", "G">>)>>, "LF"),
     \* 8: a sample row with an eleventh column
     Sheet(<<Full(<<"[Header]">>), Full(<<"ContainerID", "190519">>)>>,
           <<Full(<<"h1", "H">>) \o <<"extra">>>>, "LF") >>

AllContents == 1..Len(SheetContents)
\* contents of the sheets in the directory tree of the pipeline specification
TreeContents == {1, 2, 3}
\* ... and of those found below the expected place
NestedContents == {1}

(* ------------------------------ paths ---------------------------------- *)
\* A path names a slot under the root and a place in it; `canon` tells
\* whether the string is the resolved absolute spelling.  Path('') is '.'.
PathOf(s, w, c) == [slot |-> s, where |-> w, canon |-> c]
CwdPath == PathOf(0, "cwd", FALSE)

\* Entries under the root: nothing, a plain file, or a folder holding no
\* sheet, SampleSheet.csv at the expected place, or one nested deeper.
Entry(k, w, c) == [kind |-> k, where |-> w, content |-> c]
Absent == Entry("absent", "none", 0)
PlainFile == Entry("file", "none", 0)
EmptyDir == Entry("dir", "none", 0)

EntriesOver(cs, ns) ==
  {Absent, PlainFile, EmptyDir}
    \cup {Entry("dir", "expected", c) : c \in cs}
    \cup {Entry("dir", "nested", c) : c \in ns}

(* ----------------------- text and date helpers ------------------------- *)
\* Python's None where a string is expected (no csv field holds a newline)
None == "None\n"

Min(a, b) == IF a <= b THEN a ELSE b

\* s[a:b] of a Python string, with the clamping slices do
Slice(s, a, b) == SubSeq(s, a + 1, Min(b, Len(s)))

\* Path.read_text(): text mode with universal newlines, every line
\* terminator is read as "\n"
read_text(file) == [i \in 1..Len(file) |-> Ln(file[i].fields, "LF")]

\* Path.write_text(text): "\n" is written as os.linesep, which is "\n" here
write_text(text) == text

RECURSIVE ScanContainerId(_, _)
ScanContainerId(lines, i) ==
  IF i > Len(lines) THEN [exc |-> "none", value |-> None]
  ELSE IF lines[i].fields[1] = "ContainerID"
       THEN IF Len(lines[i].fields) >= 2
            THEN [exc |-> "none", value |-> lines[i].fields[2]]
            ELSE [exc |-> "IndexError", value |-> None]
       ELSE ScanContainerId(lines, i + 1)

\* (mutation) the code read as MMDDYY, as extract_date_from_sample_id does
containerid_to_date_mmddyy(container_id) ==
  IF container_id # None /\ container_id # ""
  THEN "20" \o Slice(container_id, 4, Len(container_id)) \o "-" \o Slice(container_id, 0, 2)
         \o "-" \o Slice(container_id, 2, 4)
  ELSE container_id

\* get_container_id(filename): the second field of the first line whose
\* first field is ContainerID; None when there is no such line
get_container_id(file) == ScanContainerId(read_text(file), 1)

containerid_to_date(container_id) ==
  IF container_id # None /\ container_id # ""
  THEN "20" \o Slice(container_id, 0, 2) \o "-" \o Slice(container_id, 2, 4)
         \o "-" \o Slice(container_id, 4, Len(container_id))
  ELSE container_id

(* ------------------------------ csv ------------------------------------ *)
\* csv.DictReader(file1, fieldnames): a row maps the field names to the
\* cells by position; missing cells are None, surplus cells go under the
\* key None (`rest`).  Lines without any cell are skipped.
DictRow(f) ==
  [cells |-> [i \in 1..NumFields |-> IF i <= Len(f) THEN f[i] ELSE None],
   rest |-> IF Len(f) > NumFields THEN SubSeq(f, NumFields + 1, Len(f)) ELSE <<>>]

IsBlankLine(l) == l.fields = <<"">>

RECURSIVE DictReader(_)
DictReader(file) ==
  IF file = <<>> THEN <<>>
  ELSE IF IsBlankLine(Head(file)) THEN DictReader(Tail(file))
       ELSE <<DictRow(Head(file).fields)>> \o DictReader(Tail(file))

\* index of the first row whose Sample_ID cell is "Sample_ID", or 0
RECURSIVE SentinelAt(_, _)
SentinelAt(rows, i) ==
  IF i > Len(rows) THEN 0
  ELSE IF rows[i].cells[1] = "Sample_ID" THEN i ELSE SentinelAt(rows, i + 1)

\* get_sheet_header(reader): the rows before the sentinel row
get_sheet_header(rows) ==
  IF SentinelAt(rows, 1) = 0 THEN rows ELSE SubSeq(rows, 1, SentinelAt(rows, 1) - 1)

\* read_samplesheet(filename): (header, lines); the sentinel row is consumed
read_samplesheet(file) ==
  LET rows == DictReader(file)
      k == SentinelAt(rows, 1)
  IN [header |-> get_sheet_header(rows),
      lines |-> IF k = 0 THEN <<>> ELSE SubSeq(rows, k + 1, Len(rows))]

\* csv.DictWriter: a row is written with its ten cells (None as the empty
\* string) and "\r\n"; a row holding a key outside fieldnames raises
WrittenRow(r) ==
  Ln([i \in 1..NumFields |-> IF r.cells[i] = None THEN "" ELSE r.cells[i]], "CRLF")

RECURSIVE FirstBadRow(_, _)
FirstBadRow(rows, i) ==
  IF i > Len(rows) THEN 0
  ELSE IF rows[i].rest # <<>> THEN i ELSE FirstBadRow(rows, i + 1)

\* DictWriter.writerows(rows) appended to `out`
writerows(out, rows) ==
  LET b == FirstBadRow(rows, 1)
      n == IF b = 0 THEN Len(rows) ELSE b - 1
  IN [exc |-> IF b = 0 THEN "none" ELSE "ValueError",
      file |-> out \o [i \in 1..n |-> WrittenRow(rows[i])]]

writeheader(out) == out \o <<Ln(fieldnames, "CRLF")>>

(* ------------------------------ state ---------------------------------- *)
VARIABLES
  root,                    \* the entries directly under the root folder
  rootCanonical,           \* whether the root folder is given by its resolved path
  indexFile,               \* the index file: whether it exists, and its lines
  outputFiles,             \* <run folder>/files: output file name -> content
  filelist,                \* <run folder>/filelist.txt
  pc,                      \* where Scheduler.run / SampleSheetFinder.run stands
  elapsed,                 \* time slept since the last run, in polling units
  exc,                     \* the exception that left SampleSheetFinder.run, if any
  changes,                 \* number of changes made to the tree so far
  previous,                \* history: the list the last completed run selected,
                           \* and whether the tree is still the one it scanned
  index,                   \* run(): the index as read
  defined_sample_sheets,
  missing_sheets,
  globbed_sample_sheets,
  selected_sample_sheets,
  organized_samplesheets   \* dict in insertion order: <<[key, sheets], ...>>

finder == <<index, defined_sample_sheets, missing_sheets, globbed_sample_sheets,
            selected_sample_sheets, organized_samplesheets>>
disk == <<root, rootCanonical, indexFile, outputFiles, filelist, changes, previous>>
vars == <<root, rootCanonical, indexFile, outputFiles, filelist, pc, elapsed, exc, changes,
          previous,
          index, defined_sample_sheets, missing_sheets, globbed_sample_sheets,
          selected_sample_sheets, organized_samplesheets>>

(* --------------------------- file system -------------------------------- *)
\* Path.exists() / a successful stat()
Exists(p) ==
  \/ p.where = "cwd"
  \/ /\ p.slot \in Slots
     /\ root[p.slot].kind = "dir"
     /\ p.where \in {"expected", "nested"}
     /\ root[p.slot].where = p.where

\* the file a path leads to, whatever its spelling
Inode(p) == <<p.slot, p.where>>

\* Path.resolve()
resolve(p) == PathOf(p.slot, p.where, TRUE)

\* content of the sheet file at an existing path
ContentAt(p) == SheetContents[root[p.slot].content]

\* the members of a set of slots in listing order
RECURSIVE Listing(_, _)
Listing(S, s) ==
  IF s > NumSlots THEN <<>>
  ELSE (IF s \in S THEN <<s>> ELSE <<>>) \o Listing(S, s + 1)

\* no run has completed yet
NoRun == [same |-> FALSE, selected |-> <<>>]

NoFiles == [k \in {} |-> <<>>]
NoFilelist == [written |-> FALSE, missing |-> 0, defined |-> 0, globbed |-> 0, layout |-> 0]

(* --------------------------- scheduler ---------------------------------- *)
\* Scheduler.run_scraper up to finder.run: a new SampleSheetFinder on the
\* output folder named after the day; runs are wait_time (a day) apart, so
\* the folder is a new one
RunScraper ==
  /\ pc = "scheduled"
  /\ Len(indexFile.lines) <= MaxIndexLines
  /\ outputFiles' = NoFiles
  /\ filelist' = NoFilelist
  /\ index' = <<>>
  /\ defined_sample_sheets' = <<>>
  /\ missing_sheets' = <<>>
  /\ globbed_sample_sheets' = <<>>
  /\ selected_sample_sheets' = <<>>
  /\ organized_samplesheets' = <<>>
  /\ exc' = "none"
  /\ pc' = "read_index"
  /\ UNCHANGED <<root, rootCanonical, indexFile, elapsed, changes, previous>>

\* the inner loop of Scheduler.run: sleep update_interval at a time
Sleep ==
  /\ pc = "sleep"
  /\ elapsed < wait_time
  /\ elapsed' = elapsed + update_interval
  /\ UNCHANGED <<disk, pc, exc, finder>>

\* ... until wait_time has passed, then the outer loop starts over
WakeUp ==
  /\ pc = "sleep"
  /\ elapsed >= wait_time
  /\ pc' = "scheduled"
  /\ elapsed' = 0
  /\ UNCHANGED <<disk, exc, finder>>

\* An exception raised inside run() is caught nowhere in run(),
\* run_scraper() or Scheduler.run(): the process ends.
Raise(e) ==
  /\ exc' = e
  /\ pc' = "terminated"

(* ------------------------------ run() ----------------------------------- *)
\* read_index(): one path per piece of the text split at "\n"; the text of
\* a file of complete lines ends with a newline, so the last piece is ''
read_index ==
  IF indexFile.exists THEN indexFile.lines \o <<CwdPath>> ELSE <<>>

ReadIndex ==
  /\ pc = "read_index"
  /\ index' = read_index
  /\ pc' = "expected"
  /\ UNCHANGED <<disk, elapsed, exc, defined_sample_sheets, missing_sheets,
                 globbed_sample_sheets, selected_sample_sheets, organized_samplesheets>>

\* (mutation) without the is_file() test: plain files are taken for folders
RECURSIVE expected_files_no_file_test(_, _, _)
expected_files_no_file_test(order, defined, missing) ==
  IF order = <<>> THEN [defined |-> defined, missing |-> missing]
  ELSE LET s == Head(order) IN
       IF Exists(PathOf(s, "expected", rootCanonical))
       THEN expected_files_no_file_test(Tail(order),
                                        Append(defined, PathOf(s, "expected", rootCanonical)),
                                        missing)
       ELSE expected_files_no_file_test(Tail(order), defined,
                                        Append(missing, PathOf(s, "folder", rootCanonical)))

\* get_expected_files over the entries in the order iterdir() yields them
RECURSIVE expected_files(_, _, _)
expected_files(order, defined, missing) ==
  IF order = <<>> THEN [defined |-> defined, missing |-> missing]
  ELSE LET s == Head(order) IN
       IF root[s].kind = "file" THEN expected_files(Tail(order), defined, missing)
       ELSE IF Exists(PathOf(s, "expected", rootCanonical))
            THEN expected_files(Tail(order),
                                Append(defined, PathOf(s, "expected", rootCanonical)), missing)
            ELSE expected_files(Tail(order), defined,
                                Append(missing, PathOf(s, "folder", rootCanonical)))

Present == {s \in Slots : root[s].kind # "absent"}

GetExpectedFiles ==
  /\ pc = "expected"
  /\ LET r == expected_files(Listing(Present, 1), defined_sample_sheets, missing_sheets) IN
       /\ defined_sample_sheets' = r.defined
       /\ missing_sheets' = r.missing
  /\ pc' = "glob"
  /\ UNCHANGED <<disk, elapsed, exc, index, globbed_sample_sheets,
                 selected_sample_sheets, organized_samplesheets>>

\* get_globbed_files: every SampleSheet.csv below the root, resolved
Globbed == {s \in Slots : root[s].kind = "dir" /\ root[s].where \in {"expected", "nested"}}

get_globbed_files(order) ==
  [i \in 1..Len(order) |-> resolve(PathOf(order[i], root[order[i]].where, rootCanonical))]

GetGlobbedFiles ==
  /\ pc = "glob"
  /\ globbed_sample_sheets' = get_globbed_files(Listing(Globbed, 1))
  /\ pc' = "filter"
  /\ UNCHANGED <<disk, elapsed, exc, index, defined_sample_sheets, missing_sheets,
                 selected_sample_sheets, organized_samplesheets>>

\* (mutation) membership by path string, the test the comment in
\* filter_samplesheets warns against
samefile_by_string(left, right) ==
  [exc |-> "none", same |-> left = right]

\* left.samefile(right): both paths are stat()ed, a missing one raises
samefile(left, right) ==
  IF Exists(left) /\ Exists(right)
  THEN [exc |-> "none", same |-> Inode(left) = Inode(right)]
  ELSE [exc |-> "FileNotFoundError", same |-> FALSE]

\* the inner loop of filter_samplesheets: "indexed" at the first identical
\* path (break), "new" when the loop is exhausted (else), or the exception
RECURSIVE Lookup(_, _, _)
Lookup(left, indexed_sheets, j) ==
  IF j > Len(indexed_sheets) THEN "new"
  ELSE LET r == samefile(left, indexed_sheets[j]) IN
       IF r.exc # "none" THEN r.exc
       ELSE IF r.same THEN "indexed"
       ELSE Lookup(left, indexed_sheets, j + 1)

RECURSIVE FilterLoop(_, _, _)
FilterLoop(candidates, indexed_sheets, files) ==
  IF candidates = <<>> THEN [exc |-> "none", files |-> files]
  ELSE LET l == Lookup(Head(candidates), indexed_sheets, 1) IN
       IF l = "new"
       THEN FilterLoop(Tail(candidates), indexed_sheets, Append(files, Head(candidates)))
       ELSE IF l = "indexed" THEN FilterLoop(Tail(candidates), indexed_sheets, files)
       ELSE [exc |-> l, files |-> files]

\* filter_samplesheets(indexed_sheets) over defined + globbed sheets
filter_samplesheets(indexed_sheets) ==
  FilterLoop(defined_sample_sheets \o globbed_sample_sheets, indexed_sheets, <<>>)

FilterSamplesheets ==
  /\ pc = "filter"
  /\ LET r == filter_samplesheets(index) IN
       IF r.exc = "none"
       THEN /\ selected_sample_sheets' = r.files
            /\ pc' = "organize"
            /\ exc' = exc
       ELSE /\ Raise(r.exc)
            /\ selected_sample_sheets' = selected_sample_sheets
  /\ UNCHANGED <<disk, elapsed, index, defined_sample_sheets, missing_sheets,
                 globbed_sample_sheets, organized_samplesheets>>

\* dates[key] = [samplesheet] or dates[key].append(samplesheet)
RECURSIVE KeyAt(_, _, _)
KeyAt(dates, key, i) ==
  IF i > Len(dates) THEN 0 ELSE IF dates[i].key = key THEN i ELSE KeyAt(dates, key, i + 1)

DictAdd(dates, key, samplesheet) ==
  LET i == KeyAt(dates, key, 1) IN
    IF i = 0 THEN Append(dates, [key |-> key, sheets |-> <<samplesheet>>])
    ELSE [dates EXCEPT ![i].sheets = Append(@, samplesheet)]

RECURSIVE OrganizeLoop(_, _)
OrganizeLoop(sheets, dates) ==
  IF sheets = <<>> THEN [exc |-> "none", dates |-> dates]
  ELSE LET container_id == get_container_id(ContentAt(Head(sheets))) IN
       IF container_id.exc # "none" THEN [exc |-> container_id.exc, dates |-> dates]
       ELSE OrganizeLoop(Tail(sheets),
                         DictAdd(dates, containerid_to_date(container_id.value), Head(sheets)))

\* organize_samplesheets(selected_sheets)
organize_samplesheets(selected_sheets) == OrganizeLoop(selected_sheets, <<>>)

OrganizeSamplesheets ==
  /\ pc = "organize"
  /\ LET r == organize_samplesheets(selected_sample_sheets) IN
       IF r.exc = "none"
       THEN /\ organized_samplesheets' = r.dates
            /\ pc' = "output"
            /\ exc' = exc
       ELSE /\ Raise(r.exc)
            /\ organized_samplesheets' = organized_samplesheets
  /\ UNCHANGED <<disk, elapsed, index, defined_sample_sheets, missing_sheets,
                 globbed_sample_sheets, selected_sample_sheets>>

(* --------------------------- output files ------------------------------- *)
RECURSIVE AllLines(_)
AllLines(sheets) ==
  IF sheets = <<>> THEN <<>>
  ELSE read_samplesheet(ContentAt(Head(sheets))).lines \o AllLines(Tail(sheets))

\* combine_samplesheets(sheets, output_filename): `header` is what the last
\* pass of the reading loop left in it
combine_samplesheets(sheets) ==
  LET header == read_samplesheet(ContentAt(sheets[Len(sheets)])).header
      all_lines == AllLines(sheets)
      w1 == writerows(<<>>, header)
      w2 == writerows(writeheader(w1.file), all_lines)
  IN IF w1.exc # "none" THEN w1 ELSE w2

\* f"{date_string}.SampleSheet.csv"
OutputName(date_string) ==
  (IF date_string = None THEN "None" ELSE date_string) \o ".SampleSheet.csv"

\* write_organized_samplesheets(organized, output_folder); the operating
\* system refuses the write of entry `failAt`, if there is such an entry
RECURSIVE WriteLoop(_, _, _, _)
WriteLoop(organized, i, files, failAt) ==
  IF i > Len(organized) THEN [exc |-> "none", files |-> files]
  ELSE IF i = failAt THEN [exc |-> "OSError", files |-> files]
  ELSE LET sheets == organized[i].sheets
           name == OutputName(organized[i].key)
           combined == combine_samplesheets(sheets)
       IN IF Len(sheets) > 1
          THEN IF combined.exc # "none"
               THEN [exc |-> combined.exc, files |-> (name :> combined.file) @@ files]
               ELSE WriteLoop(organized, i + 1, (name :> combined.file) @@ files, failAt)
          ELSE WriteLoop(organized, i + 1,
                         (name :> write_text(read_text(ContentAt(sheets[1])))) @@ files,
                         failAt)

write_organized_samplesheets(organized, files, failAt) ==
  WriteLoop(organized, 1, files, failAt)

\* write_logs(): the report of the run
write_logs ==
  [written |-> TRUE, missing |-> Len(missing_sheets),
   defined |-> Len(defined_sample_sheets), globbed |-> Len(globbed_sample_sheets),
   layout |-> Len(organized_samplesheets)]

\* (mutation) a failed write is logged and run() goes on to update_index()
GenerateOutput_swallowing ==
  /\ pc = "output"
  /\ filelist' = write_logs
  /\ \E failAt \in 1..(Len(organized_samplesheets) + 1) :
       LET r == write_organized_samplesheets(organized_samplesheets, outputFiles, failAt) IN
         /\ outputFiles' = r.files
         /\ pc' = "update_index"
         /\ exc' = r.exc
  /\ UNCHANGED <<root, rootCanonical, indexFile, elapsed, changes, previous, finder>>

\* generate_output(): the report, then the per-date files
GenerateOutput ==
  /\ pc = "output"
  /\ filelist' = write_logs
  /\ \E failAt \in 1..(Len(organized_samplesheets) + 1) :
       LET r == write_organized_samplesheets(organized_samplesheets, outputFiles, failAt) IN
         /\ outputFiles' = r.files
         /\ IF r.exc = "none"
            THEN pc' = "update_index" /\ exc' = exc
            ELSE Raise(r.exc)
  /\ UNCHANGED <<root, rootCanonical, indexFile, elapsed, changes, previous, finder>>

(* ------------------------------ index ----------------------------------- *)
\* (mutation) the index file opened with 'w': earlier lines are lost
update_index_truncating(file, selected) ==
  [exists |-> TRUE, lines |-> [i \in 1..Len(selected) |-> resolve(selected[i])]]

\* update_index(): open('a') and one line, the resolved path, per selected sheet
update_index(file, selected) ==
  [exists |-> TRUE,
   lines |-> file.lines \o [i \in 1..Len(selected) |-> resolve(selected[i])]]

\* the last step of run(); run_scraper returns, the finder is dropped and
\* Scheduler.run enters its sleeping loop
UpdateIndex ==
  /\ pc = "update_index"
  /\ indexFile' = update_index(indexFile, selected_sample_sheets)
  /\ pc' = "sleep"
  /\ elapsed' = 0
  /\ previous' = [same |-> TRUE, selected |-> selected_sample_sheets]
  /\ UNCHANGED <<root, rootCanonical, outputFiles, filelist, exc, changes, finder>>

(* ---------------------------- environment ------------------------------- *)
\* between two runs the instrument adds run folders and sheets, and
\* operators move or delete them
ChangeTree ==
  /\ pc = "sleep"
  /\ changes < MaxTreeChanges
  /\ changes' = changes + 1
  /\ previous' = [previous EXCEPT !.same = FALSE]
  /\ \E s \in Slots, e \in EntriesOver(TreeContents, NestedContents) :
       /\ e # root[s]
       /\ root' = [root EXCEPT ![s] = e]
  /\ UNCHANGED <<rootCanonical, indexFile, outputFiles, filelist, pc, elapsed, exc, finder>>

(* --------------------------- specification ------------------------------ *)
InitFinder ==
  /\ index = <<>>
  /\ defined_sample_sheets = <<>>
  /\ missing_sheets = <<>>
  /\ globbed_sample_sheets = <<>>
  /\ selected_sample_sheets = <<>>
  /\ organized_samplesheets = <<>>

Init ==
  /\ root \in [Slots -> EntriesOver(TreeContents, NestedContents)]
  /\ rootCanonical \in BOOLEAN
  \* no index file yet, or one left by an earlier run over this tree
  /\ indexFile \in {[exists |-> FALSE, lines |-> <<>>],
                    [exists |-> TRUE, lines |-> <<PathOf(1, "expected", TRUE)>>]}
  /\ \A i \in 1..Len(indexFile.lines) : Exists(indexFile.lines[i])
  /\ outputFiles = NoFiles
  /\ filelist = NoFilelist
  /\ pc = "scheduled"
  /\ elapsed = 0
  /\ exc = "none"
  /\ changes = 0
  /\ previous = NoRun
  /\ InitFinder

Next ==
  \/ RunScraper
  \/ ReadIndex
  \/ GetExpectedFiles
  \/ GetGlobbedFiles
  \/ FilterSamplesheets
  \/ OrganizeSamplesheets
  \/ GenerateOutput
  \/ UpdateIndex
  \/ Sleep
  \/ WakeUp
  \/ ChangeTree

Spec == Init /\ [][Next]_vars

TypeOK ==
  /\ pc \in {"scheduled", "read_index", "expected", "glob", "filter", "organize",
             "output", "update_index", "sleep", "terminated"}
  /\ elapsed \in 0..(wait_time + update_interval)
  /\ exc \in {"none", "FileNotFoundError", "IndexError", "ValueError", "OSError"}

(* ---------------- calling the organizer and the writer directly -------- *)
\* organize_samplesheets and write_organized_samplesheets called on a list
\* of sheets, as the unit tests do
SheetPaths == {PathOf(s, "expected", rootCanonical) : s \in Slots}

RECURSIVE SeqsUpTo(_, _)
SeqsUpTo(S, n) ==
  IF n = 0 THEN {<<>>}
  ELSE SeqsUpTo(S, n - 1) \cup {Append(q, x) : q \in {r \in SeqsUpTo(S, n - 1) : Len(r) = n - 1}, x \in S}

InitSheets ==
  /\ root \in [Slots -> {Entry("dir", "expected", c) : c \in AllContents}]
  /\ rootCanonical = TRUE
  /\ indexFile = [exists |-> FALSE, lines |-> <<>>]
  /\ outputFiles = NoFiles
  /\ filelist = NoFilelist
  /\ pc = "organize"
  /\ elapsed = 0
  /\ exc = "none"
  /\ changes = 0
  /\ previous = NoRun
  /\ index = <<>>
  /\ defined_sample_sheets = <<>>
  /\ missing_sheets = <<>>
  /\ globbed_sample_sheets = <<>>
  /\ selected_sample_sheets \in SeqsUpTo(SheetPaths, MaxSheets) \ {<<>>}
  /\ organized_samplesheets = <<>>

NextSheets ==
  \/ OrganizeSamplesheets
  \/ GenerateOutput

SpecSheets == InitSheets /\ [][NextSheets]_vars

(* ------------------------------ claims ---------------------------------- *)
Range(q) == {q[i] : i \in 1..Len(q)}

\* two paths lead to the same existing file
Identical(p, q) == Exists(p) /\ Exists(q) /\ Inode(p) = Inode(q)

Candidates == defined_sample_sheets \o globbed_sample_sheets

\* the filter step of a run has been taken: it returned or it raised
Filtered == pc = "organize" \/ (pc = "terminated" /\ exc = "FileNotFoundError")

\* C1: for every candidate list and every index list, filter_samplesheets
\* returns exactly the candidates that are file-identical to no indexed path.
C1_FilterSoundAndComplete ==
  Filtered =>
    /\ pc = "organize"
    /\ Range(selected_sample_sheets) =
         {c \in Range(Candidates) : \A j \in 1..Len(index) : ~Identical(c, index[j])}

\* every organized date has its output file, and every selected sheet is
\* under one of the organized dates
OutputsWritten ==
  /\ \A i \in 1..Len(organized_samplesheets) :
       OutputName(organized_samplesheets[i].key) \in DOMAIN outputFiles
  /\ \A p \in Range(selected_sample_sheets) :
       \E i \in 1..Len(organized_samplesheets) : p \in Range(organized_samplesheets[i].sheets)

\* C2: the index file is appended only by the last step of a run, after the
\* output files of all dates of that run were written; when a write fails
\* the run aborts and the index file stays as it was.
C2_IndexAfterOutputs ==
  [][/\ indexFile' # indexFile =>
          pc = "update_index" /\ exc = "none" /\ OutputsWritten
     /\ pc = "output" /\ pc' = "terminated" =>
          indexFile' = indexFile /\ exc' \in {"OSError", "ValueError"}
     /\ pc = "terminated" => indexFile' = indexFile]_vars

C2_Witness ==
  /\ pc = "sleep"
  /\ selected_sample_sheets # <<>>
  /\ OutputsWritten
  /\ \A p \in Range(selected_sample_sheets) : resolve(p) \in Range(indexFile.lines)

\* C3: the index is append-only: a step never removes or moves a line, and
\* update_index adds one line, the resolved path, per element of the
\* selected list of the run, in order.
C3_IndexAppendOnly ==
  [][/\ Len(indexFile'.lines) >= Len(indexFile.lines)
     /\ SubSeq(indexFile'.lines, 1, Len(indexFile.lines)) = indexFile.lines
     /\ pc = "update_index" /\ pc' # pc =>
          /\ Len(indexFile'.lines) = Len(indexFile.lines) + Len(selected_sample_sheets)
          /\ \A i \in 1..Len(selected_sample_sheets) :
               indexFile'.lines[Len(indexFile.lines) + i] =
                 PathOf(selected_sample_sheets[i].slot, selected_sample_sheets[i].where, TRUE)]_vars

C3_Witness ==
  /\ pc = "sleep"
  /\ selected_sample_sheets # <<>>
  /\ Len(indexFile.lines) > Len(selected_sample_sheets)

RECURSIVE Flatten(_)
Flatten(qs) == IF qs = <<>> THEN <<>> ELSE Head(qs) \o Flatten(Tail(qs))

\* the rows of a sheet before its Sample_ID row, and those after it
Preamble(p) == read_samplesheet(ContentAt(p)).header
DataRows(p) == read_samplesheet(ContentAt(p)).lines

RowsOf(rows) == [i \in 1..Len(rows) |-> WrittenRow(rows[i]).fields]
FieldsOf(file) == [i \in 1..Len(file) |-> file[i].fields]

\* what merging `sheets` is to give: all preambles, one header row, all data rows
Merged(sheets) ==
  RowsOf(Flatten([i \in 1..Len(sheets) |-> Preamble(sheets[i])]))
    \o <<fieldnames>>
    \o RowsOf(Flatten([i \in 1..Len(sheets) |-> DataRows(sheets[i])]))

\* the writing of the output files has returned
Written == pc = "update_index"

\* C4: the output of merging N >= 2 sheets of a date is the preamble rows of
\* all N sheets in input order, one header row, and the data rows of all N
\* sheets in input order.
C4_MergeConcatenatesPreambles ==
  Written =>
    \A i \in 1..Len(organized_samplesheets) :
      Len(organized_samplesheets[i].sheets) >= 2 =>
        FieldsOf(outputFiles[OutputName(organized_samplesheets[i].key)])
          = Merged(organized_samplesheets[i].sheets)

\* the sheets were organized: the map is there
Organized == pc \in {"output", "update_index", "sleep"}

\* C5: in the organized map every date holds a sorted sequence in which
\* each underlying file appears at most once.
C5_OrganizedDeduplicated ==
  Organized =>
    \A k \in 1..Len(organized_samplesheets) :
      LET sheets == organized_samplesheets[k].sheets IN
        \A i, j \in 1..Len(sheets) :
          i < j => /\ Inode(sheets[i]) # Inode(sheets[j])
                   /\ sheets[i].slot <= sheets[j].slot

Digits == {"0", "1", "2", "3", "4", "5", "6", "7", "8", "9"}
IsCode(c) == Len(c) = 6 /\ \A i \in 1..6 : SubSeq(c, i, i) \in Digits

\* the ContainerID rows of a file
ContainerRows(file) == {i \in 1..Len(file) : file[i].fields[1] = "ContainerID"}

\* no date can be derived: no ContainerID row, or one without a second
\* field, or one whose code is not YYMMDD
Undatable(file) ==
  \/ ContainerRows(file) = {}
  \/ \E i \in ContainerRows(file) :
       /\ \A j \in ContainerRows(file) : i <= j
       /\ \/ Len(file[i].fields) < 2
          \/ ~IsCode(file[i].fields[2])

IsDateKey(k) ==
  /\ Len(k) = 10
  /\ SubSeq(k, 1, 2) = "20" /\ SubSeq(k, 5, 5) = "-" /\ SubSeq(k, 8, 8) = "-"
  /\ \A i \in {3, 4, 6, 7, 9, 10} : SubSeq(k, i, i) \in Digits

\* the keys under which the organized map holds a sheet
KeysOf(p) ==
  {organized_samplesheets[i].key :
     i \in {j \in 1..Len(organized_samplesheets) : p \in Range(organized_samplesheets[j].sheets)}}

\* organize_samplesheets has been called: it returned or it raised
OrganizeCalled ==
  pc \in {"output", "update_index", "sleep"} \/ (pc = "terminated" /\ exc = "IndexError")

\* C6: a selected sheet whose date cannot be derived is put in one explicit
\* unparsed bucket that is no date key; it is not dropped and the derivation
\* does not raise.
C6_UndatableInUnparsedBucket ==
  OrganizeCalled =>
    /\ exc # "IndexError"
    /\ \A p, q \in Range(selected_sample_sheets) :
         Undatable(ContentAt(p)) /\ Undatable(ContentAt(q)) =>
           /\ KeysOf(p) # {}
           /\ KeysOf(p) = KeysOf(q)
           /\ \A k \in KeysOf(p) : ~IsDateKey(k)

\* C7: when an invocation of the pipeline fails with an exception, the
\* scheduler loop keeps running and goes on to wait for the next cycle.
C7_SchedulerSurvivesFailedRun ==
  exc # "none" => pc \in {"sleep", "scheduled"}

\* a line of the index that names no existing file, other than the empty line
Unusable(p) == ~Exists(p)

\* C8: an index line that names no usable sheet path is skipped and the
\* run continues, the filter classifying the candidates against the other
\* lines; a missing index file is read as the empty sequence.
C8_UnusableIndexLineSkipped ==
  /\ exc # "FileNotFoundError"
  /\ pc = "expected" /\ ~indexFile.exists => index = <<>>
  /\ pc = "organize" =>
       Range(selected_sample_sheets) =
         {c \in Range(Candidates) :
            \A j \in 1..Len(index) : Unusable(index[j]) \/ Inode(c) # Inode(index[j])}

\* C9: for a date with exactly one sheet the output file has the content
\* of that sheet, and the sheet itself is not changed.
C9_SingleSheetCopiedVerbatim ==
  [][pc = "output" /\ pc' = "update_index" =>
       /\ root' = root
       /\ \A i \in 1..Len(organized_samplesheets) :
            Len(organized_samplesheets[i].sheets) = 1 =>
              outputFiles'[OutputName(organized_samplesheets[i].key)]
                = ContentAt(organized_samplesheets[i].sheets[1])]_vars

\* the names of the run folders under the root, as in the test tree
FolderName(s) == IF s = 1 THEN "170120_xyz" ELSE IF s = 2 THEN "181017" ELSE "190519"

\* policy (a): the first six characters of the folder name, as YYMMDD
FolderDate(s) ==
  "20" \o SubSeq(FolderName(s), 1, 2) \o "-" \o SubSeq(FolderName(s), 3, 4)
    \o "-" \o SubSeq(FolderName(s), 5, 6)

\* the ContainerID code of a sheet of SheetContents, "" when it has none
CodeOf(c) ==
  IF c \in {1, 2} THEN "170120" ELSE IF c = 3 THEN "181017" ELSE IF c = 8 THEN "190519" ELSE ""

DateOfCode(code) ==
  IF code = "170120" THEN "2017-01-20"
  ELSE IF code = "181017" THEN "2018-10-17" ELSE "2019-05-19"

\* C10 (as claimed): the key of a sheet is the date of its ContainerID code
\* when it has one, and the date of its folder name when it has none.
C10_ContainerIdThenFolderName ==
  pc = "output" =>
    \A p \in Range(selected_sample_sheets) :
      LET c == root[p.slot].content IN
        /\ CodeOf(c) # "" => KeysOf(p) = {DateOfCode(CodeOf(c))}
        /\ ContainerRows(SheetContents[c]) = {} => KeysOf(p) = {FolderDate(p.slot)}

\* C10 (amended): a sheet with a row ContainerID,YYMMDD is filed under
\* 20YY-MM-DD whatever its folder is called; a sheet without a ContainerID
\* row is filed under None, the folder name is not consulted.
C10_ContainerIdOnly ==
  pc = "output" =>
    \A p \in Range(selected_sample_sheets) :
      LET c == root[p.slot].content IN
        /\ CodeOf(c) # "" => KeysOf(p) = {DateOfCode(CodeOf(c))}
        /\ ContainerRows(SheetContents[c]) = {} => KeysOf(p) = {None}

C10_Witness ==
  /\ pc = "output"
  /\ \E p \in Range(selected_sample_sheets) :
       /\ root[p.slot].content = 3
       /\ FolderName(p.slot) = "170120_xyz"
       /\ KeysOf(p) = {"2018-10-17"}
  /\ \E p \in Range(selected_sample_sheets) : KeysOf(p) = {None}

\* number of positions of a sequence that hold x
Count(q, x) == Cardinality({i \in 1..Len(q) : q[i] = x})

\* get_expected_files has returned and the tree is still the one it scanned
Scanned == pc \in {"glob", "filter", "organize", "output", "update_index"}

\* C11: after get_expected_files on a fresh finder every subfolder with a
\* SampleSheet.csv gives exactly that path to defined_sample_sheets, every
\* subfolder without one is in missing_sheets, none is in both or in
\* neither, and the plain files under the root are in neither list.
C11_ExpectedFilesPartition ==
  Scanned =>
    /\ \A s \in Slots :
         LET sheet == PathOf(s, "expected", rootCanonical)
             folder == PathOf(s, "folder", rootCanonical)
             isDir == root[s].kind = "dir"
             has == isDir /\ root[s].where = "expected"
         IN /\ Count(defined_sample_sheets, sheet) = (IF has THEN 1 ELSE 0)
            /\ Count(missing_sheets, folder) = (IF isDir /\ ~has THEN 1 ELSE 0)
    /\ \A p \in Range(defined_sample_sheets) : p.slot \in Slots /\ p.where = "expected"
    /\ \A p \in Range(missing_sheets) : p.slot \in Slots /\ p.where = "folder"

C11_Witness ==
  /\ pc = "glob"
  /\ defined_sample_sheets # <<>>
  /\ missing_sheets # <<>>

\* the filter step of the run that follows a completed run over the same
\* tree has been taken
FilteredAgain == previous.same /\ pc \in {"organize", "output", "update_index"}

\* C12: of two consecutive successful runs over one index file and an
\* unchanged tree, the second selects none of the sheets the first one
\* selected, and writes no output for them.
C12_SecondRunRejectsIndexed ==
  FilteredAgain =>
    \A p \in Range(previous.selected) :
      /\ \A q \in Range(selected_sample_sheets) : Inode(q) # Inode(p)
      /\ \A i \in 1..Len(organized_samplesheets) :
           \A q \in Range(organized_samplesheets[i].sheets) : Inode(q) # Inode(p)
      /\ pc = "update_index" => outputFiles = NoFiles

C12_Witness ==
  /\ pc = "update_index"
  /\ previous.same
  /\ previous.selected # <<>>
  /\ \A p \in Range(previous.selected) : resolve(p) \in Range(indexFile.lines)

====
